---- MODULE Spec2Model ----
(***************************************************************************)
(* A model of the garage door controller (garage_controller.py) together   *)
(* with the parts of main.py that call it.                                  *)
(*                                                                          *)
(* Threads of the program:                                                  *)
(*   main    - runs the constructor (_setup_gpio, start of the monitor      *)
(*             thread), then main.py's two register_status_callback calls,  *)
(*             then serves requests;                                        *)
(*   poller  - the monitor thread running _monitor_doors;                   *)
(*   timers  - one threading.Timer thread per completed trigger_door call,  *)
(*             running _update_door_status once;                            *)
(*   calls   - request handlers inside trigger_door.                        *)
(* Python gives no atomicity across statements, so every read and every     *)
(* write of a shared attribute is a step of its own.                        *)
(***************************************************************************)
EXTENDS Integers, Sequences, FiniteSets, Bags, TLC

\* ---------------------------------------------------------------- constants

\* class DoorStatus(Enum)
OPEN == "open"
CLOSED == "closed"
OPENING == "opening"
CLOSING == "closing"
UNKNOWN == "unknown"
DoorStatus == {OPEN, CLOSED, OPENING, CLOSING, UNKNOWN}

\* GPIO levels (mock_rpi.GPIO.HIGH / LOW, lgpio 1 / 0)
HIGH == 1
LOW == 0

\* pin configuration of GarageDoorController.__init__
DOOR1_RELAY == 9
DOOR2_RELAY == 12
DOOR1_SENSOR == 11
DOOR2_SENSOR == 4

Doors == {1, 2}
RelayPins == {DOOR1_RELAY, DOOR2_RELAY}
SensorPins == {DOOR1_SENSOR, DOOR2_SENSOR}
Pins == RelayPins \cup SensorPins

\* delays of the deferred re-poll, in seconds
CLOSING_DELAY == 15
OPENING_DELAY == 2

\* the door ids callers pass (0 and 3 are invalid)
DoorIds == {0, 1, 2, 3}

\* trigger_door's default pulse duration (0.5 s), in half seconds; main.py
\* passes no other
DefaultDuration == 1

\* the pulse durations other callers pass: the default, and a negative one,
\* which time.sleep rejects with ValueError
Durations == {DefaultDuration, -DefaultDuration}

\* at most MaxPending trigger_door calls and unfinished re-poll timers at a time
MaxPending == 1

None == "none"

VARIABLES
    door_states,        \* self.door_states: door -> DoorStatus
    status_callbacks,   \* self.status_callbacks: door -> None or the observer
    gpio,               \* level of every pin
    sensor_pins,        \* door -> its sensor pin (self.DOOR1_SENSOR, self.DOOR2_SENSOR)
    monitoring,         \* self.monitoring
    main,               \* the main thread
    poller,             \* self.monitor_thread
    timers,             \* bag of threading.Timer threads
    calls,              \* bag of trigger_door calls in progress
    emitted,            \* the observer call made by the last step: the observer
                        \* called and its arguments, or NoEvent
    claimed,            \* the pins the process holds (claimed by _setup_gpio)
    cleanups,           \* the number of cleanup() calls that have returned
    registered,         \* door -> the callback argument of the last
                        \* register_status_callback call for it (history)
    garage_controller,  \* the module-level instance of garage_controller.py
    faulty,             \* the pins whose writes fail (hardware faults)
    enable_auth,        \* auth.py ENABLE_AUTH
    users,              \* the users table of users.py: id -> row
    request,            \* the HTTP request being served, or None
    response,           \* the answer to it, or None
    active_connections, \* ConnectionManager.active_connections of main.py
    failing,            \* the connections whose send_text raises
    delivered,          \* the connections the last broadcast reached
    notified,           \* door -> the status of the last observer call for it
                        \* (history), where the specification keeps track
    _pin_states,        \* mock_rpi.GPIO._pin_states
    current_door_state, \* homekit_bridge.py: door -> CurrentDoorState
    target_door_state,  \* homekit_bridge.py: door -> TargetDoorState
    posts,              \* the trigger requests the bridge has posted
    bridge_call         \* the last call of a method of the bridge, with the
                        \* API's answer to its request (history)

\* the state of homekit_bridge.py
bridge == <<current_door_state, target_door_state, posts, bridge_call>>

\* the state of mock_rpi.py and homekit_bridge.py
outside == <<_pin_states, bridge>>

\* the state of main.py, auth.py and the other modules around the controller
web == <<enable_auth, users, request, response, active_connections, failing,
         delivered, outside>>

\* the state of garage_controller.py
controller == <<door_states, status_callbacks, gpio, sensor_pins, monitoring,
                main, poller, timers, calls, emitted, claimed, cleanups,
                registered, garage_controller, faulty, notified>>

\* the state of main.py and auth.py
server == <<enable_auth, users, request, response, active_connections, failing,
            delivered>>

vars == <<door_states, status_callbacks, gpio, sensor_pins, monitoring, main,
          poller, timers, calls, emitted, claimed, cleanups, registered,
          garage_controller, faulty, notified, web>>

\* ------------------------------------------------------------ pin abstraction

_get_sensor_pin(door_id) == IF door_id = 1 THEN sensor_pins[1] ELSE sensor_pins[2]

\* both doors on door 1's relay pin
_get_relay_pin_shared(door_id) == DOOR1_RELAY

_get_relay_pin(door_id) == IF door_id = 1 THEN DOOR1_RELAY ELSE DOOR2_RELAY

_gpio_read(pin) == gpio[pin] = HIGH

_gpio_write(pin, value) == [gpio EXCEPT ![pin] = IF value THEN HIGH ELSE LOW]

\* _read_sensor without the inversion of line 122
_read_sensor_not_inverted(door_id) == _gpio_read(_get_sensor_pin(door_id))

\* True = open, False = closed: the sensor is HIGH when the door is closed
_read_sensor(door_id) == ~ _gpio_read(_get_sensor_pin(door_id))

\* line 127 reporting an open door as OPENING
NewStatus_opening(is_open) == IF is_open THEN OPENING ELSE CLOSED

NewStatus(is_open) == IF is_open THEN OPEN ELSE CLOSED

\* the pins mock_rpi.GPIO.input treats as sensors (line 43)
MockSensorPins == {23, 24}

\* mock_rpi.GPIO.input lines 39-49, with _pin_states a function from the pins
\* set so far to their levels
mock_input(pin_states, pin) ==
    IF pin \in MockSensorPins THEN LOW
    ELSE IF pin \in DOMAIN pin_states THEN pin_states[pin]
    ELSE LOW

\* ------------------------------------------------------- _update_door_status

\* The local state of a thread: where it is (pc), inside _update_door_status
\* the door, the raw level read and the status computed, and the exception
\* that ended it.
Local(pc, door) ==
    [pc |-> pc, door |-> door, sensor_value |-> FALSE, new_status |-> None,
     exc |-> None]

\* _update_door_status left by exception exc
Raised(door, exc) == [Local("raised", door) EXCEPT !.exc = exc]

\* How a step of _update_door_status can end: normally, with the exception of
\* the observer, or with the one of a failing pin read.
Outcomes == {None, "ObserverError", "IOError"}

UpdatePcs == {"read", "cmp", "write", "notify"}

\* The observer call self.status_callbacks[door_id](door_id, status): the
\* observer looked up and its arguments.
Event(door_id, status) ==
    [callback |-> status_callbacks[door_id], door_id |-> door_id, status |-> status]

\* no observer call
NoEvent == [callback |-> None, door_id |-> 0, status |-> None]

\* the history of observer calls where none is kept
Untracked == [d \in {1, 2} |-> "untracked"]

\* the history after the observer of door_id was called with status
Notified(door_id, status) ==
    IF notified = Untracked THEN notified
    ELSE [notified EXCEPT ![door_id] = status]

\* One step of _update_door_status by a thread with local state u: the local
\* state after it. pc "done": the call returned; "raised": an exception left it.
\*   read   line 126-127   the sensor is read and new_status computed, unless
\*                         the read raises
\*   cmp    line 129       the stored status is compared with new_status
\*   write  line 130       new_status is stored
\*   notify line 131-132   the observer, if one is registered, is called
\* (first the same with a compare that leaves OPENING and CLOSING alone)
UpdateLocal_keep_transitional(u, raises) ==
    CASE u.pc = "read" ->
            IF raises # None
            THEN Raised(u.door, raises)
            ELSE [u EXCEPT !.pc = "cmp",
                           !.sensor_value = _gpio_read(_get_sensor_pin(u.door)),
                           !.new_status = NewStatus(_read_sensor(u.door))]
      [] u.pc = "cmp" ->
            IF /\ door_states[u.door] # u.new_status
               /\ door_states[u.door] \notin {OPENING, CLOSING}
            THEN [u EXCEPT !.pc = "write"]
            ELSE Local("done", u.door)
      [] u.pc = "write" -> [u EXCEPT !.pc = "notify"]
      [] u.pc = "notify" ->
            IF raises # None THEN Raised(u.door, raises) ELSE Local("done", u.door)

UpdateLocal(u, raises) ==
    CASE u.pc = "read" ->
            IF raises # None
            THEN Raised(u.door, raises)
            ELSE [u EXCEPT !.pc = "cmp",
                           !.sensor_value = _gpio_read(_get_sensor_pin(u.door)),
                           !.new_status = NewStatus(_read_sensor(u.door))]
      [] u.pc = "cmp" ->
            IF door_states[u.door] # u.new_status
            THEN [u EXCEPT !.pc = "write"]
            ELSE Local("done", u.door)
      [] u.pc = "write" -> [u EXCEPT !.pc = "notify"]
      [] u.pc = "notify" ->
            IF raises # None THEN Raised(u.door, raises) ELSE Local("done", u.door)

\* line 130 storing the status for every door on the same sensor pin
UpdateShared_per_pin(u) ==
    /\ door_states' = IF u.pc = "write"
                      THEN [d \in Doors |->
                              IF sensor_pins[d] = sensor_pins[u.door]
                              THEN u.new_status ELSE door_states[d]]
                      ELSE door_states
    /\ emitted' = IF u.pc = "notify" /\ status_callbacks[u.door] # None
                  THEN Event(u.door, u.new_status)
                  ELSE NoEvent
    /\ notified' = IF u.pc = "notify" /\ status_callbacks[u.door] # None
                   THEN Notified(u.door, u.new_status)
                   ELSE notified

\* line 132 passing the observer the status stored at the time of the call
UpdateShared_reread(u) ==
    /\ door_states' = IF u.pc = "write"
                      THEN [door_states EXCEPT ![u.door] = u.new_status]
                      ELSE door_states
    /\ emitted' = IF u.pc = "notify" /\ status_callbacks[u.door] # None
                  THEN Event(u.door, door_states[u.door])
                  ELSE NoEvent
    /\ notified' = IF u.pc = "notify" /\ status_callbacks[u.door] # None
                   THEN Notified(u.door, door_states[u.door])
                   ELSE notified

\* The same step's effect on the shared state.
UpdateShared(u) ==
    /\ door_states' = IF u.pc = "write"
                      THEN [door_states EXCEPT ![u.door] = u.new_status]
                      ELSE door_states
    /\ emitted' = IF u.pc = "notify" /\ status_callbacks[u.door] # None
                  THEN Event(u.door, u.new_status)
                  ELSE NoEvent
    /\ notified' = IF u.pc = "notify" /\ status_callbacks[u.door] # None
                   THEN Notified(u.door, u.new_status)
                   ELSE notified

\* An observer can raise only where it is called, a pin read where it is made.
MayRaise(u, raises) ==
    /\ raises = "ObserverError" => (u.pc = "notify" /\ status_callbacks[u.door] # None)
    /\ raises = "IOError" => u.pc = "read"

\* ----------------------------------------------------------------- main thread

\* _setup_gpio's two calls of _update_door_status, lines 91-93; an exception
\* leaves the constructor, and no controller exists
MainAfter(u) ==
    CASE u.pc = "done" -> IF u.door = 1 THEN Local("read", 2) ELSE Local("start", 0)
      [] u.pc = "raised" -> [Local("failed", 0) EXCEPT !.exc = u.exc]
      [] OTHER -> u

\* _setup_gpio lines 65-68 and 79: the chip is opened (lgpio) or the numbering
\* mode set (RPi.GPIO); an error of the library leaves the constructor
MainOpen ==
    /\ main.pc = "open"
    /\ \E fails \in BOOLEAN :
          main' = IF fails THEN [Local("failed", 0) EXCEPT !.exc = "IOError"]
                  ELSE Local("claim_relay", 1)
    /\ emitted' = NoEvent
    /\ UNCHANGED <<notified, web, faulty, garage_controller, door_states, status_callbacks,
                   gpio, sensor_pins, claimed, cleanups, registered, monitoring,
                   poller, timers, calls>>

\* where the constructor stands before line 92
ClaimPcs == {"open", "claim_relay", "claim_sensor"}

\* a constructor that goes on when a pin cannot be claimed
ClaimAfter_ignored(pc, door, fails) ==
    CASE pc = "claim_relay" /\ door = 1 -> Local("claim_relay", 2)
      [] pc = "claim_relay" /\ door = 2 -> Local("claim_sensor", 1)
      [] pc = "claim_sensor" /\ door = 1 -> Local("claim_sensor", 2)
      [] OTHER -> Local("read", 1)

\* where the constructor stands after the claim of one pin: the next claim in
\* the order of lines 70-76 (82-89), the first _update_door_status call of
\* line 92, or out of the constructor with the library's error
ClaimAfter(pc, door, fails) ==
    CASE fails -> [Local("failed", 0) EXCEPT !.exc = "IOError"]
      [] pc = "claim_relay" /\ door = 1 -> Local("claim_relay", 2)
      [] pc = "claim_relay" /\ door = 2 -> Local("claim_sensor", 1)
      [] pc = "claim_sensor" /\ door = 1 -> Local("claim_sensor", 2)
      [] OTHER -> Local("read", 1)

\* _setup_gpio lines 70-76 (82-89): one pin is claimed, a relay as an output
\* at HIGH, a sensor as an input with pull-up; door 2's sensor is claimed only
\* when it is not door 1's pin (line 75)
MainClaim ==
    /\ main.pc \in ClaimPcs \ {"open"}
    /\ LET pin == IF main.pc = "claim_relay" THEN _get_relay_pin(main.door)
                  ELSE _get_sensor_pin(main.door)
           skipped == main.pc = "claim_sensor" /\ main.door = 2
                      /\ _get_sensor_pin(2) = _get_sensor_pin(1)
       IN  \E fails \in BOOLEAN :
              /\ skipped => ~ fails
              /\ main' = ClaimAfter(main.pc, main.door, fails)
              /\ claimed' = IF fails THEN claimed ELSE claimed \cup {pin}
              /\ gpio' = IF ~ fails /\ main.pc = "claim_relay"
                         THEN [gpio EXCEPT ![pin] = HIGH] ELSE gpio
    /\ emitted' = NoEvent
    /\ UNCHANGED <<notified, web, faulty, garage_controller, door_states, status_callbacks,
                   sensor_pins, cleanups, registered, monitoring, poller, timers,
                   calls>>

MainSetup ==
    /\ main.pc \in UpdatePcs
    /\ \E raises \in Outcomes :
          /\ MayRaise(main, raises)
          /\ main' = MainAfter(UpdateLocal(main, raises))
    /\ UpdateShared(main)
    /\ UNCHANGED <<web, faulty, garage_controller, status_callbacks, gpio, sensor_pins, claimed, cleanups, registered, monitoring, poller,
                   timers, calls>>

\* __init__ lines 58-61: the monitor thread starts; the constructor returns and
\* get_garage_controller (line 208) stores the instance
MainStart ==
    /\ main.pc = "start"
    /\ monitoring' = TRUE
    /\ poller' = Local("loop", 0)
    /\ main' = Local("register", 1)
    /\ garage_controller' = "GarageDoorController"
    /\ emitted' = NoEvent
    /\ UNCHANGED <<notified, web, faulty, door_states, status_callbacks, gpio, sensor_pins, claimed, cleanups, registered, timers, calls>>

\* a registration that keeps an observer already registered
register_status_callback_keep(door_id, callback) ==
    IF status_callbacks[door_id] = None
    THEN [status_callbacks EXCEPT ![door_id] = callback]
    ELSE status_callbacks

\* register_status_callback, called by main.py for door 1 and then door 2
register_status_callback(door_id, callback) ==
    [status_callbacks EXCEPT ![door_id] = callback]

MainRegister ==
    /\ main.pc = "register"
    /\ status_callbacks' = register_status_callback(main.door, "door_status_changed")
    /\ registered' = [registered EXCEPT ![main.door] = "door_status_changed"]
    /\ main' = IF main.door = 1 THEN Local("register", 2) ELSE Local("serving", 0)
    /\ emitted' = NoEvent
    /\ UNCHANGED <<notified, web, faulty, garage_controller, door_states, gpio, sensor_pins, claimed, cleanups, monitoring, poller, timers, calls>>

\* ---------------------------------------------------------------------- poller

\* The trigger_door calls for door d between the relay-activate write of line
\* 159 and the relay-idle write of line 161.
InPulse(d) == {r \in BagToSet(calls) : r.door_id = d /\ r.pc = "hold"}

\* the poller waiting for every pulse hold to end before its next cycle
PollerLoop_after_pulse ==
    /\ \A d \in Doors : InPulse(d) = {}
    /\ poller.pc = "loop"
    /\ poller' = IF monitoring THEN Local("read", 1) ELSE Local("exited", 0)
    /\ emitted' = NoEvent
    /\ UNCHANGED <<notified, web, faulty, garage_controller, door_states, status_callbacks, gpio, sensor_pins, claimed, cleanups, registered, monitoring,
                   main, timers, calls>>

\* _monitor_doors: the while test (after the sleep of the previous cycle)
PollerLoop ==
    /\ poller.pc = "loop"
    /\ poller' = IF monitoring THEN Local("read", 1) ELSE Local("exited", 0)
    /\ emitted' = NoEvent
    /\ UNCHANGED <<notified, web, faulty, garage_controller, door_states, status_callbacks, gpio, sensor_pins, claimed, cleanups, registered, monitoring,
                   main, timers, calls>>

\* a poller whose cycle updates door 1 only
PollerAfter_door1(u) ==
    CASE u.pc = "done" -> Local("loop", 0)
      [] u.pc = "raised" -> [Local("dead", 0) EXCEPT !.exc = u.exc]
      [] OTHER -> u

\* _update_door_status(1), then _update_door_status(2), then the sleep; an
\* exception ends the thread.
PollerAfter(u) ==
    CASE u.pc = "done" -> IF u.door = 1 THEN Local("read", 2) ELSE Local("loop", 0)
      [] u.pc = "raised" -> [Local("dead", 0) EXCEPT !.exc = u.exc]
      [] OTHER -> u

PollerUpdate ==
    /\ poller.pc \in UpdatePcs
    /\ \E raises \in Outcomes :
          /\ MayRaise(poller, raises)
          /\ poller' = PollerAfter(UpdateLocal(poller, raises))
    /\ UpdateShared(poller)
    /\ UNCHANGED <<web, faulty, garage_controller, status_callbacks, gpio, sensor_pins, claimed, cleanups, registered, monitoring, main, timers,
                   calls>>

\* ---------------------------------------------------------------------- timers

Replace(bag, old, new) == (bag (-) SetToBag({old})) (+) SetToBag({new})

\* threading.Timer(delay, self._update_door_status, args=[door]), started
Timer(door, delay) == [pc |-> "pending", door |-> door, delay |-> delay]

\* A timer thread ends when _update_door_status returns or raises.
TimersAfter(t, u) ==
    IF u.pc \in {"done", "raised"}
    THEN timers (-) SetToBag({t})
    ELSE Replace(timers, t, u)

\* The delay is over: the timer thread calls _update_door_status(door).
TimerFire(t) ==
    /\ BagIn(t, timers) /\ t.pc = "pending"
    /\ \E raises \in {None, "IOError"} :
          timers' = TimersAfter(t, UpdateLocal(Local("read", t.door), raises))
    /\ emitted' = NoEvent
    /\ UNCHANGED <<notified, web, faulty, garage_controller, door_states, status_callbacks, gpio, sensor_pins, claimed, cleanups, registered, monitoring,
                   main, poller, calls>>

TimerUpdate(t) ==
    /\ BagIn(t, timers) /\ t.pc \in UpdatePcs
    /\ \E raises \in Outcomes :
          /\ MayRaise(t, raises)
          /\ timers' = TimersAfter(t, UpdateLocal(t, raises))
    /\ UpdateShared(t)
    /\ UNCHANGED <<web, faulty, garage_controller, status_callbacks, gpio, sensor_pins, claimed, cleanups, registered, monitoring, main, poller,
                   calls>>

\* ---------------------------------------------------------- trigger_door calls

\* A call of trigger_door in progress: where it is, its arguments door_id and
\* duration, its local current_status, and the exception it ends with.
Call(pc, door_id, duration, current_status, exc) ==
    [pc |-> pc, door_id |-> door_id, duration |-> duration,
     current_status |-> current_status, exc |-> exc]

\* The call me left by exception exc.
CallRaised(me, exc) == Call("raised", me.door_id, me.duration, None, exc)

Pending == BagCardinality(calls) + BagCardinality(timers)

\* the test with an upper bound that is off by one
ValidDoor_up_to_3(door_id) == door_id \in {1, 2, 3}

\* the test of lines 143 and 173: door_id in [1, 2]
ValidDoor(door_id) == door_id \in {1, 2}

\* trigger_door lines 143-149: the check of door_id and the read of the status
\* (a key that door_states does not hold raises KeyError), while fewer than cap
\* calls and timers are alive
EnterTrigger(cap, door_id, duration) ==
    /\ main.pc = "serving"
    /\ Pending < cap
    /\ calls' = calls (+) SetToBag({
          IF ~ ValidDoor(door_id)
          THEN Call("raised", door_id, duration, None, "ValueError")
          ELSE IF door_id \notin DOMAIN door_states
          THEN Call("raised", door_id, duration, None, "KeyError")
          ELSE Call("set", door_id, duration, door_states[door_id], None)})
    /\ emitted' = NoEvent
    /\ UNCHANGED <<notified, faulty, garage_controller, door_states, status_callbacks, gpio, sensor_pins, claimed, cleanups, registered, monitoring,
                   main, poller, timers>>

\* a trigger_door call by a caller that is no HTTP request
TriggerEntryCap(cap, door_id, duration) ==
    /\ EnterTrigger(cap, door_id, duration)
    /\ UNCHANGED web

TriggerEntry(door_id, duration) == TriggerEntryCap(MaxPending, door_id, duration)

\* lines 150-153 with an else branch that resets the status
Optimistic_reset(current_status, stored) ==
    IF current_status = CLOSED THEN OPENING
    ELSE IF current_status = OPEN THEN CLOSING
    ELSE UNKNOWN

\* lines 150-153: the optimistic write
Optimistic(current_status, stored) ==
    IF current_status = CLOSED THEN OPENING
    ELSE IF current_status = OPEN THEN CLOSING
    ELSE stored

TriggerSet(me) ==
    /\ BagIn(me, calls) /\ me.pc = "set"
    /\ door_states' = [door_states EXCEPT ![me.door_id] =
                          Optimistic(me.current_status, door_states[me.door_id])]
    /\ calls' = Replace(calls, me, [me EXCEPT !.pc = "emit"])
    /\ emitted' = NoEvent
    /\ UNCHANGED <<notified, web, faulty, garage_controller, status_callbacks, gpio, sensor_pins, claimed, cleanups, registered, monitoring, main, poller,
                   timers>>

\* lines 155-156: the observer is called with the status stored at this moment;
\* its exception leaves trigger_door
TriggerEmit(me) ==
    /\ BagIn(me, calls) /\ me.pc = "emit"
    /\ \E raises \in BOOLEAN :
          /\ raises => status_callbacks[me.door_id] # None
          /\ calls' = Replace(calls, me,
                IF raises
                THEN CallRaised(me, "ObserverError")
                ELSE [me EXCEPT !.pc = "activate"])
    /\ emitted' = IF status_callbacks[me.door_id] # None
                  THEN Event(me.door_id, door_states[me.door_id])
                  ELSE NoEvent
    /\ notified' = IF status_callbacks[me.door_id] # None
                   THEN Notified(me.door_id, door_states[me.door_id])
                   ELSE notified
    /\ UNCHANGED <<web, faulty, garage_controller, door_states, status_callbacks, gpio, sensor_pins, claimed, cleanups, registered, monitoring,
                   main, poller, timers>>

\* A write of a pin the process no longer holds (after cleanup) raises on
\* lgpio and RPi.GPIO and sets the level on the mock; a write of a pin it holds
\* sets the level unless the pin is faulty, when the library may raise too.
WriteMayFail(pin, fails) == fails => (pin \notin claimed \/ pin \in faulty)

\* line 159: LOW activates the relay
TriggerActivate(me) ==
    /\ BagIn(me, calls) /\ me.pc = "activate"
    /\ \E fails \in BOOLEAN :
          /\ WriteMayFail(_get_relay_pin(me.door_id), fails)
          /\ gpio' = IF fails THEN gpio
                     ELSE _gpio_write(_get_relay_pin(me.door_id), FALSE)
          /\ calls' = Replace(calls, me,
                IF fails THEN CallRaised(me, "IOError")
                ELSE [me EXCEPT !.pc = "hold"])
    /\ emitted' = NoEvent
    /\ UNCHANGED <<notified, web, faulty, garage_controller, door_states, status_callbacks, sensor_pins, claimed, cleanups, registered, monitoring, main,
                   poller, timers>>

\* line 160: time.sleep(duration) raises ValueError for a negative duration
SleepRaises(duration) == duration < 0

\* lines 160-161: the sleep is over and HIGH deactivates the relay, or the sleep
\* raised and its exception leaves trigger_door
TriggerDeactivate(me) ==
    /\ BagIn(me, calls) /\ me.pc = "hold"
    /\ \E fails \in BOOLEAN :
          /\ WriteMayFail(_get_relay_pin(me.door_id), fails)
          /\ fails => ~ SleepRaises(me.duration)
          /\ gpio' = IF SleepRaises(me.duration) \/ fails
                     THEN gpio
                     ELSE _gpio_write(_get_relay_pin(me.door_id), TRUE)
          /\ calls' = Replace(calls, me,
                IF SleepRaises(me.duration) THEN CallRaised(me, "ValueError")
                ELSE IF fails THEN CallRaised(me, "IOError")
                ELSE [me EXCEPT !.pc = "schedule"])
    /\ emitted' = NoEvent
    /\ UNCHANGED <<notified, web, faulty, garage_controller, door_states, status_callbacks, sensor_pins, claimed, cleanups, registered, monitoring, main,
                   poller, timers>>

\* lines 163-169 with the two delays exchanged
RepollDelay_exchanged(current_status) ==
    IF current_status = OPEN THEN OPENING_DELAY ELSE CLOSING_DELAY

\* lines 163-169: the delay of the deferred re-poll
RepollDelay(current_status) ==
    IF current_status = OPEN THEN CLOSING_DELAY ELSE OPENING_DELAY

\* the timer is started and trigger_door returns
TriggerSchedule(me) ==
    /\ BagIn(me, calls) /\ me.pc = "schedule"
    /\ timers' = timers (+) SetToBag({Timer(me.door_id, RepollDelay(me.current_status))})
    /\ calls' = calls (-) SetToBag({me})
    /\ emitted' = NoEvent
    /\ UNCHANGED <<notified, web, faulty, garage_controller, door_states, status_callbacks, gpio, sensor_pins, claimed, cleanups, registered, monitoring,
                   main, poller>>

\* The exception reaches the caller of trigger_door.
CallerRaised(me) ==
    /\ BagIn(me, calls) /\ me.pc = "raised"
    /\ calls' = calls (-) SetToBag({me})
    /\ emitted' = NoEvent
    /\ UNCHANGED <<notified, web, faulty, garage_controller, door_states, status_callbacks, gpio, sensor_pins, claimed, cleanups, registered, monitoring,
                   main, poller, timers>>

\* get_door_status: the status, or ValueError
get_door_status(door_id) ==
    IF ~ ValidDoor(door_id) THEN "ValueError"
    ELSE IF door_id \notin DOMAIN door_states THEN "KeyError"
    ELSE door_states[door_id]

\* main.py, POST /api/trigger/{door_id}, by the outcome exc of
\* controller.trigger_door: ValueError becomes 400, any other exception the
\* server's 500; 200 when the logging of line 278 that follows a return succeeds
TriggerResponse(exc) ==
    IF exc = None THEN 200 ELSE IF exc = "ValueError" THEN 400 ELSE 500

\* a mapping that leaves out the doors whose status is not known
get_all_doors_status_known ==
    [d \in {d \in {1, 2} : door_states[d] # UNKNOWN} |-> door_states[d]]

\* get_all_doors_status lines 177-182: both doors, each with the value of its
\* stored DoorStatus
get_all_doors_status == [d \in {1, 2} |-> door_states[d]]

\* ------------------------------------------------- authentication (auth.py)

\* auth.py lines 14-15
SECRET_KEY == "your-default-secret-key-change-this"
API_KEY == "your-default-api-key"

\* what pwd_context.hash makes of a password
get_password_hash(password) == <<"bcrypt", password>>

\* the rows of the users table: an active user, and one that was deactivated
StoredUsers ==
    (1 :> [username |-> "admin", password_hash |-> get_password_hash("admin123"),
           is_active |-> TRUE])
    @@ (2 :> [username |-> "guest", password_hash |-> get_password_hash("guest123"),
              is_active |-> FALSE])

\* the user ids tokens name: the two rows and one that names no row
UserIds == {1, 2, 3}

\* what requests carry: nothing, a JWT (signed with a key, expired or not,
\* naming a user), or any other text
Absent == [kind |-> "absent"]
Jwt(key, expired, user_id) ==
    [kind |-> "jwt", key |-> key, expired |-> expired, user_id |-> user_id]
Text(text) == [kind |-> "text", text |-> text]

Tokens ==
    {Jwt(key, expired, user_id) :
        key \in {SECRET_KEY, "another-key"}, expired \in BOOLEAN, user_id \in UserIds}
    \cup {Text(API_KEY), Text("another-api-key")}

\* the value of a Basic Authorization header: base64 of username:password, or
\* text that base64.b64decode or the split of line 163 rejects
Credentials(username, password) ==
    [kind |-> "credentials", username |-> username, password |-> password]
BasicValues ==
    {Credentials("admin", "admin123"), Credentials("admin", "guest123"),
     Credentials("guest", "guest123"), Text("not-base64")}

Header(scheme, value) == [scheme |-> scheme, value |-> value]

\* the routes of main.py the requests go to
Routes == {"/api/trigger/{door_id}", "/api/status", "/api/status/{door_id}"}

\* the requests: a route and its door_id, a session_token cookie or none, an
\* Authorization header or none
Requests ==
    [route : Routes, door_id : DoorIds,
     cookie : {Absent} \cup (Tokens \ {Text(API_KEY)}),
     authorization : {Header("", Absent)}
                     \cup {Header("Bearer", t) : t \in Tokens}
                     \cup {Header("Basic", b) : b \in BasicValues}]

\* verify_token lines 43-49: the payload of a token that jwt.decode accepts
\* (signed with SECRET_KEY, not expired), else None
verify_token(token) ==
    IF token.kind = "jwt" /\ token.key = SECRET_KEY /\ ~ token.expired
    THEN [kind |-> "payload", user_id |-> token.user_id]
    ELSE Absent

\* verify_api_key lines 51-53
verify_api_key(api_key) == api_key.kind = "text" /\ api_key.text = API_KEY

\* a lookup in the rows the server started with
get_user_by_id_at_start(user_id) ==
    IF user_id \in DOMAIN StoredUsers THEN StoredUsers[user_id] ELSE Absent

\* users.py get_user_by_id: the row, or None
get_user_by_id(user_id) ==
    IF user_id \in DOMAIN users THEN users[user_id] ELSE Absent

\* users.py verify_user lines 68-90: the active row of that name whose hash
\* the password matches
verify_user(username, password) ==
    LET rows == {id \in DOMAIN users :
                    /\ users[id].username = username
                    /\ users[id].is_active
                    /\ users[id].password_hash = get_password_hash(password)}
    IN  IF rows = {} THEN Absent ELSE users[CHOOSE id \in rows : TRUE]

\* authenticate_user lines 111-116
authenticate_user(username, password) == verify_user(username, password)

\* lines 134-139 and 151-155: the token names a row that is active
ActiveUserOf(token) ==
    LET payload == verify_token(token)
        user == IF payload = Absent THEN Absent ELSE get_user_by_id(payload.user_id)
    IN  user # Absent /\ user.is_active

\* what get_current_web_user returns
WebUser(authenticated, auth_type) ==
    [authenticated |-> authenticated, auth_type |-> auth_type, exc |-> None]

\* get_current_web_user lines 127-171: the session cookie first, then a Bearer
\* API key or JWT, then Basic credentials; anonymous otherwise. No path raises.
get_current_web_user(req) ==
    LET authorization == req.authorization
    IN  IF ~ enable_auth THEN WebUser(FALSE, None)
        ELSE IF req.cookie # Absent /\ ActiveUserOf(req.cookie)
        THEN WebUser(TRUE, "session")
        ELSE IF authorization.scheme = "Bearer" /\ verify_api_key(authorization.value)
        THEN WebUser(TRUE, "api_key")
        ELSE IF authorization.scheme = "Bearer" /\ ActiveUserOf(authorization.value)
        THEN WebUser(TRUE, "jwt")
        ELSE IF /\ authorization.scheme = "Basic"
                /\ authorization.value.kind = "credentials"
                /\ authenticate_user(authorization.value.username,
                                     authorization.value.password) # Absent
        THEN WebUser(TRUE, "basic")
        ELSE WebUser(FALSE, None)

\* users.py delete_user lines 202-215: the row is deleted (with the user's rows
\* of the sessions table, which no authentication path reads)
delete_user(user_id) ==
    /\ users' = [id \in DOMAIN users \ {user_id} |-> users[id]]
    /\ UNCHANGED <<controller, outside, enable_auth, request, response,
                   active_connections, failing, delivered>>

\* the is_active column of a row (users.py line 28) is cleared in the store
deactivate_user(user_id) ==
    /\ user_id \in DOMAIN users
    /\ users' = [users EXCEPT ![user_id].is_active = FALSE]
    /\ UNCHANGED <<controller, outside, enable_auth, request, response,
                   active_connections, failing, delivered>>

\* ------------------------------------------------------- endpoints (main.py)

Response(status, body) == [status |-> status, body |-> body]

\* no response yet
NoResponse == Response(0, Absent)

\* a trigger endpoint that lets every request through
Refused_nobody(current_user_info) == FALSE

\* main.py lines 267-270: the request is refused
Refused(current_user_info) == enable_auth /\ ~ current_user_info.authenticated

\* POST /api/trigger/{door_id}, main.py lines 263-274: 401 for a refused
\* request, else the call of controller.trigger_door(door_id), whose answer
\* comes when the call has returned
api_trigger ==
    /\ request # Absent
    /\ request.route = "/api/trigger/{door_id}"
    /\ IF Refused(get_current_web_user(request))
       THEN /\ response' = Response(401, Text("Authentication required"))
            /\ UNCHANGED <<notified, door_states, status_callbacks, gpio, sensor_pins,
                           monitoring, main, poller, timers, calls, emitted,
                           claimed, cleanups, registered, garage_controller, faulty>>
       ELSE /\ EnterTrigger(MaxPending, request.door_id, DefaultDuration)
            /\ response' = response
    /\ request' = Absent
    /\ UNCHANGED <<enable_auth, users, active_connections, failing, delivered, outside>>

\* main.py lines 107-112 and 119-123: the status endpoints answer 401 when
\* get_current_web_user raises HTTPException
StatusRefused(current_user) == enable_auth /\ current_user.exc = "HTTPException"

\* GET /api/status, main.py lines 104-114
api_status ==
    /\ request # Absent
    /\ request.route = "/api/status"
    /\ response' = IF StatusRefused(get_current_web_user(request))
                   THEN Response(401, Text("Authentication required"))
                   ELSE Response(200, get_all_doors_status)
    /\ request' = Absent
    /\ UNCHANGED <<notified, door_states, status_callbacks, gpio, sensor_pins, monitoring,
                   main, poller, timers, calls, emitted, claimed, cleanups,
                   registered, garage_controller, faulty, enable_auth, users,
                   active_connections, failing, delivered, outside>>

\* GET /api/status/{door_id}, main.py lines 116-129: ValueError becomes 400
api_door_status ==
    /\ request # Absent
    /\ request.route = "/api/status/{door_id}"
    /\ response' = IF StatusRefused(get_current_web_user(request))
                   THEN Response(401, Text("Authentication required"))
                   ELSE IF get_door_status(request.door_id) = "ValueError"
                   THEN Response(400, Text("ValueError"))
                   ELSE Response(200, [door_id |-> request.door_id,
                                       status |-> get_door_status(request.door_id)])
    /\ request' = Absent
    /\ UNCHANGED <<notified, door_states, status_callbacks, gpio, sensor_pins, monitoring,
                   main, poller, timers, calls, emitted, claimed, cleanups,
                   registered, garage_controller, faulty, enable_auth, users,
                   active_connections, failing, delivered, outside>>

\* ------------------------------------------------- mock backend (mock_rpi.py)

\* the pins tests use on the mock: the controller's and the mock's sensor pins
MockPins == Pins \cup MockSensorPins

\* GPIO.setup lines 27-32: the level is stored when an initial one is given
mock_setup(pin, given, initial) ==
    /\ _pin_states' = IF given THEN (pin :> initial) @@ _pin_states ELSE _pin_states
    /\ UNCHANGED <<controller, server, bridge>>

\* GPIO.output lines 34-37
mock_output(pin, value) ==
    /\ _pin_states' = (pin :> value) @@ _pin_states
    /\ UNCHANGED <<controller, server, bridge>>

\* GPIO.cleanup lines 51-55
mock_cleanup ==
    /\ _pin_states' = <<>>
    /\ UNCHANGED <<controller, server, bridge>>

\* ------------------------------------------- HomeKit bridge (homekit_bridge.py)

\* at most MaxPosts trigger requests are posted
MaxPosts == 2

\* a response body without a status key
Missing == "<missing>"

\* the status strings of the responses the bridge may get: the five of the
\* API, one in capitals, one the API does not know, and none
AnswerStatuses == DoorStatus \cup {"OPEN", "stopped", Missing}

\* The outcome of a request of the bridge: requests raised (no connection,
\* timeout), or a response with a status code and, in its body, a status.
Answer(raised, code, status) == [raised |-> raised, code |-> code, status |-> status]

Answers ==
    {Answer(FALSE, 200, status) : status \in AnswerStatuses}
    \cup {Answer(FALSE, 401, Missing), Answer(FALSE, 500, Missing),
          Answer(TRUE, 0, Missing)}

\* a call of a method of an accessory
BridgeCall(op, door_id, value, answer) ==
    [op |-> op, door_id |-> door_id, value |-> value, answer |-> answer]

NoCall == BridgeCall(None, 0, 0, Answer(FALSE, 0, Missing))

\* str.lower() on the status strings
lower(status) == IF status = "OPEN" THEN "open" ELSE status

\* line 69: data.get('status', 'unknown').lower()
StatusOf(answer) ==
    IF answer.status = Missing THEN "unknown" ELSE lower(answer.status)

\* a mapping whose fallback is Closed
homekit_current_state_closed(status) ==
    CASE status = "open" -> 0
      [] status = "closed" -> 1
      [] status = "opening" -> 2
      [] status = "closing" -> 3
      [] OTHER -> 1

\* lines 72-78: the HomeKit value of a status, 4 for any other string
homekit_current_state(status) ==
    CASE status = "open" -> 0
      [] status = "closed" -> 1
      [] status = "opening" -> 2
      [] status = "closing" -> 3
      [] status = "unknown" -> 4
      [] OTHER -> 4

\* update_status of the accessory of door_id (lines 58-92), the API
\* answering its GET with answer
update_status(door_id, answer) ==
    /\ IF ~ answer.raised /\ answer.code = 200
       THEN LET status == StatusOf(answer)
            IN  /\ current_door_state' =
                      [current_door_state EXCEPT
                          ![door_id] = homekit_current_state(status)]
                /\ target_door_state' =
                      IF status \in {"open", "closed"}
                      THEN [target_door_state EXCEPT
                               ![door_id] = IF status = "open" THEN 0 ELSE 1]
                      ELSE target_door_state
       ELSE UNCHANGED <<current_door_state, target_door_state>>
    /\ bridge_call' = BridgeCall("update_status", door_id, 0, answer)
    /\ UNCHANGED <<controller, server, _pin_states, posts>>

\* a reset that restores the requested value
ResetTarget_requested(value) == value

\* lines 118 and 123: 1 if value == 0 else 0
ResetTarget(value) == IF value = 0 THEN 1 ELSE 0

\* set_target_door_state(value) of the accessory of door_id (lines 94-123),
\* the API answering its POST with answer
set_target_door_state(door_id, value, answer) ==
    /\ posts < MaxPosts
    /\ posts' = posts + 1
    /\ IF ~ answer.raised /\ answer.code = 200
       THEN /\ current_door_state' =
                  [current_door_state EXCEPT
                      ![door_id] = IF @ = 1 THEN 2 ELSE IF @ = 0 THEN 3 ELSE @]
            /\ UNCHANGED target_door_state
       ELSE /\ target_door_state' =
                  [target_door_state EXCEPT ![door_id] = ResetTarget(value)]
            /\ UNCHANGED current_door_state
    /\ bridge_call' = BridgeCall("set_target_door_state", door_id, value, answer)
    /\ UNCHANGED <<controller, server, _pin_states>>

\* ------------------------------------------- ConnectionManager (main.py)

\* at most MaxConnections websockets are connected
MaxConnections == 3

\* the websockets
Connections == 1 .. MaxConnections

\* list.remove(connection): the list without the first element equal to it
Remove(connections, connection) ==
    LET first == CHOOSE i \in 1 .. Len(connections) :
                    /\ connections[i] = connection
                    /\ \A j \in 1 .. (i - 1) : connections[j] # connection
    IN  SubSeq(connections, 1, first - 1)
        \o SubSeq(connections, first + 1, Len(connections))

\* broadcast lines 56-61 from the i-th element on (i counts from 1): the for
\* loop of Python takes the element at the next index of the list as it is
\* then, sends to it, and removes it from the list when the send raises;
\* got are the connections reached so far
RECURSIVE BroadcastFrom(_, _, _)
BroadcastFrom(connections, i, got) ==
    IF i > Len(connections)
    THEN [active_connections |-> connections, delivered |-> got]
    ELSE IF connections[i] \in failing
    THEN BroadcastFrom(Remove(connections, connections[i]), i + 1, got)
    ELSE BroadcastFrom(connections, i + 1, got \cup {connections[i]})

\* ConnectionManager.broadcast(message), lines 55-61
broadcast ==
    LET result == BroadcastFrom(active_connections, 1, {})
    IN  /\ active_connections' = result.active_connections
        /\ delivered' = result.delivered
        /\ UNCHANGED <<notified, door_states, status_callbacks, gpio, sensor_pins, monitoring,
                       main, poller, timers, calls, emitted, claimed, cleanups,
                       registered, garage_controller, faulty, enable_auth, users,
                       request, response, failing, outside>>

\* ------------------------------------------------------------ registration

\* the observers callers register: main.py's and another one
Observers == {"door_status_changed", "other_observer"}

\* register_status_callback(door_id, callback) called while the program serves
Register(door_id, callback) ==
    /\ main.pc = "serving"
    /\ status_callbacks' = register_status_callback(door_id, callback)
    /\ registered' = [registered EXCEPT ![door_id] = callback]
    /\ emitted' = NoEvent
    /\ UNCHANGED <<notified, web, faulty, garage_controller, door_states, gpio, sensor_pins, claimed, cleanups, monitoring,
                   main, poller, timers, calls>>

\* --------------------------------------------------------------------- cleanup

\* at most MaxCleanups calls of cleanup()
MaxCleanups == 2

\* line 190: self.monitoring = False
CleanupStop ==
    /\ main.pc \in {"serving", "cleaned"}
    /\ cleanups < MaxCleanups
    /\ monitoring' = FALSE
    /\ main' = Local("join", 0)
    /\ emitted' = NoEvent
    /\ UNCHANGED <<notified, web, faulty, garage_controller, door_states, status_callbacks, gpio, sensor_pins, claimed,
                   cleanups, registered, poller, timers, calls>>

\* lines 191-192: if the monitor thread is alive, join it for at most 1 s; the
\* join returns when the thread has ended or when the second is over
CleanupJoin ==
    /\ main.pc = "join"
    /\ main' = Local("release", 0)
    /\ emitted' = NoEvent
    /\ UNCHANGED <<notified, web, faulty, garage_controller, door_states, status_callbacks, gpio, sensor_pins, claimed,
                   cleanups, registered, monitoring, poller, timers, calls>>

\* a release that closes the chip again although nothing is held: an error
CleanupRelease_unguarded ==
    /\ main.pc = "release"
    /\ claimed' = {}
    /\ cleanups' = cleanups + 1
    /\ main' = IF claimed = {}
               THEN [Local("failed", 0) EXCEPT !.exc = "IOError"]
               ELSE Local("cleaned", 0)
    /\ emitted' = NoEvent
    /\ UNCHANGED <<notified, web, faulty, garage_controller, door_states, status_callbacks, gpio, sensor_pins, registered,
                   monitoring, poller, timers, calls>>

\* lines 194-199: the pins held are released (gpiochip_close unless the handle
\* is None already, or GPIO.cleanup()), and cleanup returns
CleanupRelease ==
    /\ main.pc = "release"
    /\ claimed' = {}
    /\ cleanups' = cleanups + 1
    /\ main' = Local("cleaned", 0)
    /\ emitted' = NoEvent
    /\ UNCHANGED <<notified, web, faulty, garage_controller, door_states, status_callbacks, gpio, sensor_pins, registered,
                   monitoring, poller, timers, calls>>

\* ------------------------------------------------------------------ environment

\* The sensor pins in use.
SensorsInUse == {sensor_pins[d] : d \in Doors}

\* A door moves: its sensor pin changes level.
SensorChange(pin) ==
    /\ pin \in SensorsInUse
    /\ gpio' = [gpio EXCEPT ![pin] = IF gpio[pin] = HIGH THEN LOW ELSE HIGH]
    /\ emitted' = NoEvent
    /\ UNCHANGED <<notified, web, faulty, garage_controller, door_states, status_callbacks, sensor_pins, claimed, cleanups, registered, monitoring, main,
                   poller, timers, calls>>

\* The hardware of a relay pin fails: from now on a write of it may raise.
RelayFault(pin) ==
    /\ pin \in RelayPins \ faulty
    /\ faulty' = faulty \cup {pin}
    /\ emitted' = NoEvent
    /\ UNCHANGED <<notified, web, garage_controller, door_states, status_callbacks, gpio,
                   sensor_pins, claimed, cleanups, registered, monitoring, main,
                   poller, timers, calls>>

\* ------------------------------------------------------------- specification

\* the mock untouched, the bridge's accessories as constructed (lines 41-48)
NoOutside ==
    /\ _pin_states = <<>>
    /\ current_door_state = [d \in Doors |-> 1]
    /\ target_door_state = [d \in Doors |-> 1]
    /\ posts = 0
    /\ bridge_call = NoCall

\* main.py and auth.py at rest: no request, nobody connected
NoWeb ==
    /\ enable_auth = TRUE
    /\ users = StoredUsers
    /\ request = Absent
    /\ response = NoResponse
    /\ active_connections = <<>>
    /\ failing = {}
    /\ delivered = {}
    /\ NoOutside

\* The entry of __init__ (line 36), with the sensor pins sp and the pins at
\* one of levels: nothing claimed; history is the record of observer calls.
InitTracking(sp, levels, history) ==
    /\ door_states = [d \in Doors |-> UNKNOWN]
    /\ status_callbacks = [d \in Doors |-> None]
    /\ sensor_pins = sp
    /\ gpio \in levels
    /\ monitoring = FALSE
    /\ main = Local("open", 0)
    /\ poller = Local("unstarted", 0)
    /\ timers = EmptyBag
    /\ calls = EmptyBag
    /\ emitted = NoEvent
    /\ claimed = {}
    /\ cleanups = 0
    /\ registered = [d \in Doors |-> None]
    /\ garage_controller = None
    /\ faulty = {}
    /\ notified = history
    /\ NoWeb

\* the same, with no record of the observer calls
InitFrom(sp, levels) == InitTracking(sp, levels, Untracked)

\* On the hardware: the relay pins at HIGH (off), the sensors in use at any level.
InitWith(sp) ==
    InitFrom(sp, {g \in [Pins -> {LOW, HIGH}] :
                     \A p \in Pins \ {sp[d] : d \in Doors} : g[p] = HIGH})

\* the pins of the source: DOOR1_SENSOR = 11, DOOR2_SENSOR = 4
CodePins == (1 :> DOOR1_SENSOR) @@ (2 :> DOOR2_SENSOR)

\* a deployment where both doors share door 1's sensor pin (_setup_gpio line 75)
SharedPins == (1 :> DOOR1_SENSOR) @@ (2 :> DOOR1_SENSOR)

Init == InitWith(CodePins)

TimerStep == \E t \in BagToSet(timers) : TimerFire(t) \/ TimerUpdate(t)

CallStep ==
    \E me \in BagToSet(calls) :
        \/ TriggerSet(me)
        \/ TriggerEmit(me)
        \/ TriggerActivate(me)
        \/ TriggerDeactivate(me)
        \/ TriggerSchedule(me)
        \/ CallerRaised(me)

Program ==
    \/ MainOpen
    \/ MainClaim
    \/ MainSetup
    \/ MainStart
    \/ MainRegister
    \/ PollerLoop
    \/ PollerUpdate
    \/ \E t \in BagToSet(timers) : TimerFire(t)
    \/ \E t \in BagToSet(timers) : TimerUpdate(t)
    \/ \E door_id \in DoorIds : TriggerEntry(door_id, DefaultDuration)
    \/ \E me \in BagToSet(calls) : TriggerSet(me)
    \/ \E me \in BagToSet(calls) : TriggerEmit(me)
    \/ \E me \in BagToSet(calls) : TriggerActivate(me)
    \/ \E me \in BagToSet(calls) : TriggerDeactivate(me)
    \/ \E me \in BagToSet(calls) : TriggerSchedule(me)
    \/ \E me \in BagToSet(calls) : CallerRaised(me)

\* The program and the doors.
Next ==
    \/ Program
    \/ \E pin \in SensorPins : SensorChange(pin)

Spec == Init /\ [][Next]_vars

\* Both pin configurations.
InitPins == InitWith(CodePins) \/ InitWith(SharedPins)

SpecPins == InitPins /\ [][Next]_vars

\* Callers that pass trigger_door a duration of their own.
NextAnyDuration ==
    \/ Next
    \/ \E door_id \in DoorIds, duration \in Durations : TriggerEntry(door_id, duration)

SpecAnyDuration == Init /\ [][NextAnyDuration]_vars

\* The program is shut down: cleanup() is called, once or twice.
NextShutdown ==
    \/ Next
    \/ CleanupStop
    \/ CleanupJoin
    \/ CleanupRelease

SpecShutdown == Init /\ [][NextShutdown]_vars

\* Observers are registered again while the program serves.
NextRegister ==
    \/ Next
    \/ \E door_id \in Doors, callback \in Observers : Register(door_id, callback)

SpecRegister == Init /\ [][NextRegister]_vars

\* Callers on several threads: one more trigger_door call at a time.
NextConcurrent ==
    \/ Next
    \/ \E door_id \in Doors : TriggerEntryCap(MaxPending + 1, door_id, DefaultDuration)

SpecConcurrent == Init /\ [][NextConcurrent]_vars

\* The program on the mock backend (GPIO_LIB = 'mock'): every pin reads as
\* mock_rpi.GPIO.input reports it before any setup or output, and no test
\* writes a pin, so no sensor level changes.
InitMock == InitFrom(CodePins, {[p \in Pins |-> mock_input(<<>>, p)]})

SpecMock == InitMock /\ [][Program]_vars

\* Relay pins whose writes fail.
NextFaults ==
    \/ Next
    \/ \E pin \in RelayPins : RelayFault(pin)

SpecFaults == Init /\ [][NextFaults]_vars

\* The controller constructed and at rest: main.py has registered its
\* observer and serves, the poller is between two cycles, every door has the
\* status of its sensor, no call and no timer is alive.
AtRest ==
    /\ sensor_pins = CodePins
    /\ gpio \in {g \in [Pins -> {LOW, HIGH}] : \A p \in RelayPins : g[p] = HIGH}
    /\ door_states = [d \in Doors |-> NewStatus(_read_sensor(d))]
    /\ status_callbacks = [d \in Doors |-> "door_status_changed"]
    /\ registered = [d \in Doors |-> "door_status_changed"]
    /\ monitoring = TRUE
    /\ main = Local("serving", 0)
    /\ poller = Local("loop", 0)
    /\ timers = EmptyBag
    /\ calls = EmptyBag
    /\ emitted = NoEvent
    /\ claimed = Pins
    /\ cleanups = 0
    /\ garage_controller = "GarageDoorController"
    /\ faulty = {}
    /\ notified = Untracked

\* One HTTP request, with any credentials, reaches one endpoint of main.py
\* while the controller is at rest, with authentication enabled or not.
InitHttp ==
    /\ AtRest
    /\ enable_auth \in BOOLEAN
    /\ users = StoredUsers
    /\ request \in Requests
    /\ response = NoResponse
    /\ active_connections = <<>>
    /\ failing = {}
    /\ delivered = {}
    /\ NoOutside

NextHttp ==
    \/ api_trigger
    \/ api_status
    \/ api_door_status

SpecHttp == InitHttp /\ [][NextHttp]_vars

\* The user store changes while requests are served: users are deleted or
\* deactivated before the trigger request arrives.
NextRevoke ==
    \/ \E user_id \in UserIds : delete_user(user_id)
    \/ \E user_id \in UserIds : deactivate_user(user_id)
    \/ api_trigger

SpecRevoke == InitHttp /\ [][NextRevoke]_vars

\* The program with the record of the status each observer was last called
\* with (None before the first call).
InitNotify ==
    InitTracking(CodePins,
                 {g \in [Pins -> {LOW, HIGH}] : \A p \in RelayPins : g[p] = HIGH},
                 [d \in Doors |-> None])

SpecNotify == InitNotify /\ [][Next]_vars

\* Tests drive the mock backend directly: setup, output and cleanup of any pin.
InitMockPins ==
    /\ AtRest
    /\ gpio[DOOR1_SENSOR] = HIGH /\ gpio[DOOR2_SENSOR] = HIGH
    /\ NoWeb

NextMockPins ==
    \/ \E pin \in MockPins, given \in BOOLEAN, initial \in {LOW, HIGH} :
          mock_setup(pin, given, initial)
    \/ \E pin \in MockPins, value \in {LOW, HIGH} : mock_output(pin, value)
    \/ mock_cleanup

SpecMockPins == InitMockPins /\ [][NextMockPins]_vars

\* The HomeKit bridge with its two accessories: the periodic update_status
\* and HomeKit's requests, with every answer the API may give.
InitHomeKit ==
    /\ AtRest
    /\ gpio[DOOR1_SENSOR] = HIGH /\ gpio[DOOR2_SENSOR] = HIGH
    /\ NoWeb

NextHomeKit ==
    \/ \E door_id \in Doors, answer \in Answers : update_status(door_id, answer)
    \/ \E door_id \in Doors, value \in {0, 1}, answer \in Answers :
          set_target_door_state(door_id, value, answer)

SpecHomeKit == InitHomeKit /\ [][NextHomeKit]_vars

\* the lists of distinct websockets
ConnectionLists ==
    {l \in UNION {[1 .. n -> Connections] : n \in 0 .. MaxConnections} :
        \A i, j \in 1 .. Len(l) : i # j => l[i] # l[j]}

\* One broadcast to any list of connected websockets, any of which may have
\* been closed by its client, while the controller is at rest.
InitBroadcast ==
    /\ AtRest
    /\ enable_auth = TRUE
    /\ users = StoredUsers
    /\ request = Absent
    /\ response = NoResponse
    /\ active_connections \in ConnectionLists
    /\ failing \in SUBSET Connections
    /\ delivered = {}
    /\ NoOutside
    /\ gpio[DOOR1_SENSOR] = HIGH /\ gpio[DOOR2_SENSOR] = HIGH

NextBroadcast == broadcast

SpecBroadcast == InitBroadcast /\ [][NextBroadcast]_vars

\* Every thread of the program that can take a step eventually takes one; the
\* callers and the doors (TriggerEntry, SensorChange) owe nothing.
Fairness ==
    /\ WF_vars(MainOpen)
    /\ WF_vars(MainClaim)
    /\ WF_vars(MainSetup)
    /\ WF_vars(MainStart)
    /\ WF_vars(MainRegister)
    /\ WF_vars(PollerLoop)
    /\ WF_vars(PollerUpdate)
    /\ WF_vars(TimerStep)
    /\ WF_vars(CallStep)

FairSpec == Spec /\ Fairness

\* ----------------------------------------------------------- steps, by thread

\* The threads that may be inside _update_door_status.
UpdateThreads == {main, poller} \cup BagToSet(timers)

\* Thread u takes the step of _update_door_status that leads from pc to u2.
UpdateStep(u, pc, u2) ==
    /\ u.pc = pc
    /\ \/ poller = u /\ poller' = PollerAfter(u2)
       \/ main = u /\ main' = MainAfter(u2)
       \/ BagIn(u, timers) /\ timers' = TimersAfter(u, u2)

\* line 130 by thread u
WriteStep(u) == UpdateStep(u, "write", [u EXCEPT !.pc = "notify"])

\* lines 131-132 by thread u
NotifyStep(u) ==
    \/ UpdateStep(u, "notify", Local("done", u.door))
    \/ UpdateStep(u, "notify", Raised(u.door, "ObserverError"))

\* lines 150-153 by call me
SetStep(me) ==
    /\ BagIn(me, calls) /\ me.pc = "set"
    /\ calls' = Replace(calls, me, [me EXCEPT !.pc = "emit"])

\* lines 155-156 by call me
EmitStep(me) ==
    /\ BagIn(me, calls) /\ me.pc = "emit"
    /\ \/ calls' = Replace(calls, me, [me EXCEPT !.pc = "activate"])
       \/ calls' = Replace(calls, me, CallRaised(me, "ObserverError"))

\* lines 163-169 by call me
ScheduleStep(me) ==
    /\ BagIn(me, calls) /\ me.pc = "schedule"
    /\ calls' = calls (-) SetToBag({me})

Transitional == {OPENING, CLOSING}

\* --------------------------------------------------------------------- claims

\* C1. Polarity inversion law: whenever _update_door_status stores a status,
\* it stores CLOSED if the raw level it read was HIGH and OPEN if it was LOW,
\* and nothing else.
C1_PolarityLaw ==
    [][\A u \in UpdateThreads :
          WriteStep(u) =>
             door_states'[u.door] = IF u.sensor_value THEN CLOSED ELSE OPEN]_vars

\* C1 witness: an update has read HIGH and stored CLOSED.
C1_Witness ==
    \E u \in UpdateThreads :
        u.pc = "notify" /\ u.sensor_value /\ door_states[u.door] = CLOSED

\* C2. An update calls the observer only when it changes the door's status:
\* the store of an update that goes on to call the observer changes the status.
C2_UpdateEmitsOnlyOnChange ==
    [][\A u \in UpdateThreads :
          (WriteStep(u) /\ status_callbacks[u.door] # None) =>
             door_states'[u.door] # door_states[u.door]]_vars

\* C3. The notification a trigger delivers on a CLOSED door carries OPENING,
\* and on an OPEN door CLOSING, whatever the poller does meanwhile.
C3_TriggerEmitsOptimistic ==
    [][\A me \in BagToSet(calls) :
          (EmitStep(me) /\ status_callbacks[me.door_id] # None) =>
             /\ me.current_status = CLOSED => emitted' = Event(me.door_id, OPENING)
             /\ me.current_status = OPEN => emitted' = Event(me.door_id, CLOSING)]_vars

\* C4. A status becomes OPENING or CLOSING only by the optimistic write of a
\* trigger_door call on that door; no store of _update_door_status produces one.
C4_TransitionalOnlyByTrigger ==
    [][/\ \A d \in Doors :
             (door_states'[d] \in Transitional /\ door_states'[d] # door_states[d])
                => \E me \in BagToSet(calls) : me.door_id = d /\ SetStep(me)
       /\ \A u \in UpdateThreads :
             WriteStep(u) => door_states'[u.door] \notin Transitional]_vars

\* C4 witness: a trigger has made door 1 OPENING.
C4_Witness ==
    \E me \in BagToSet(calls) :
        me.pc = "emit" /\ me.door_id = 1 /\ door_states[1] = OPENING

\* C5. Every transitional status eventually resolves to OPEN, CLOSED or UNKNOWN.
C5_EventuallyResolves ==
    \A d \in Doors :
        [](door_states[d] \in Transitional
              => <>(door_states[d] \in {OPEN, CLOSED, UNKNOWN}))

\* C6. The re-poll a trigger schedules has the long delay (15 s) exactly when
\* the status read at the trigger's entry was OPEN, and the short one (2 s)
\* otherwise, in particular when it was CLOSED.
C6_AsymmetricDelay ==
    [][\A me \in BagToSet(calls) :
          ScheduleStep(me) =>
             \E t \in BagToSet(timers') :
                /\ timers' = timers (+) SetToBag({t})
                /\ t.pc = "pending" /\ t.door = me.door_id
                /\ t.delay = 15 <=> me.current_status = OPEN
                /\ t.delay = 2 <=> me.current_status # OPEN]_vars

\* C6 witness: a re-poll with the long delay is pending, and door 1 is CLOSING.
C6_Witness ==
    \E t \in BagToSet(timers) :
        t.pc = "pending" /\ t.delay = 15 /\ door_states[t.door] = CLOSING

\* C7. A door id outside {1, 2} is rejected without effect: get_door_status
\* raises ValueError; a trigger_door call with such an id ends with ValueError
\* (HTTP 400) at its entry, and neither its entry nor its return changes a
\* status, a pin, the timers or calls an observer.
InvalidIds == DoorIds \ {1, 2}

C7_InvalidDoorRejected ==
    [][/\ \A id \in InvalidIds : get_door_status(id) = "ValueError"
       /\ \A r \in BagToSet(calls') :
             r.door_id \in InvalidIds =>
                r.pc = "raised" /\ r.exc = "ValueError" /\ TriggerResponse(r.exc) = 400
       /\ \A r \in BagToSet(calls) \cup BagToSet(calls') :
             (r.door_id \in InvalidIds /\ CopiesIn(r, calls') # CopiesIn(r, calls)) =>
                /\ UNCHANGED <<door_states, gpio, timers, status_callbacks>>
                /\ emitted' = NoEvent]_vars

\* C7 witness: a trigger_door call with an invalid id has raised ValueError.
C7_Witness ==
    \E r \in BagToSet(calls) : r.door_id \in InvalidIds /\ r.exc = "ValueError"

\* C8. For doors d # e, trigger_door(d) and the re-poll it schedules neither
\* change e's status nor call e's observer, also when both doors share a
\* sensor pin: e's status changes only by a step of an update or trigger for e,
\* an observer call for e is made only by an update or trigger for e, and the
\* timer a trigger schedules polls the trigger's own door (or ends, changing
\* nothing, when its pin read raises).
C8_OtherDoorUntouched ==
    [][/\ \A e \in Doors :
             door_states'[e] # door_states[e] =>
                \/ \E u \in UpdateThreads : u.door = e /\ WriteStep(u)
                \/ \E me \in BagToSet(calls) : me.door_id = e /\ SetStep(me)
       /\ emitted' # NoEvent =>
             \/ \E u \in UpdateThreads : u.door = emitted'.door_id /\ NotifyStep(u)
             \/ \E me \in BagToSet(calls) :
                   me.door_id = emitted'.door_id /\ EmitStep(me)
       /\ \A me \in BagToSet(calls) :
             ScheduleStep(me) =>
                \E t \in BagToSet(timers') :
                   timers' = timers (+) SetToBag({t}) /\ t.door = me.door_id
       /\ \A t \in BagToSet(timers) :
             (t.pc = "pending" /\ CopiesIn(t, timers') < CopiesIn(t, timers)) =>
                \/ \E u \in BagToSet(timers') : u.pc = "cmp" /\ u.door = t.door
                \/ timers' = timers (-) SetToBag({t}) /\ door_states' = door_states]_vars

\* C8 witness: the doors share a sensor pin, door 1 has been triggered and is
\* OPENING, and door 2 still has the status of its own last poll.
C8_Witness ==
    /\ sensor_pins[1] = sensor_pins[2]
    /\ door_states[1] = OPENING /\ door_states[2] = CLOSED
    /\ \E me \in BagToSet(calls) : me.door_id = 1 /\ me.pc = "hold"

\* C9. An exception of the observer called from the poller's update does not
\* end the poller.
C9_PollerSurvivesObserver ==
    ~ (poller.pc = "dead" /\ poller.exc = "ObserverError")

\* C10. An exception of the observer in trigger_door's optimistic emit does not
\* leave trigger_door: no call ends with it.
C10_TriggerSurvivesObserver ==
    \A r \in BagToSet(calls) : r.exc # "ObserverError"

\* line 160 raising in call me: the sleep's exception leaves trigger_door
HoldRaisesStep(me) ==
    /\ BagIn(me, calls) /\ me.pc = "hold"
    /\ calls' = Replace(calls, me, CallRaised(me, "ValueError"))

\* C11. A trigger_door call that fails after it drove the relay active leaves
\* the relay idle: when the hold step raises, the relay pin of the call's door
\* is HIGH once the exception has left trigger_door.
C11_RelayNotLeftEngaged ==
    [][\A me \in BagToSet(calls) :
          HoldRaisesStep(me) => gpio'[_get_relay_pin(me.door_id)] = HIGH]_vars

\* C14. The optimistic write is not separated from the read of the status:
\* when trigger_door writes OPENING (it read CLOSED) the status it overwrites is
\* CLOSED, and when it writes CLOSING (it read OPEN) the status is OPEN.
C14_OptimisticWriteNotRaced ==
    [][\A me \in BagToSet(calls) :
          SetStep(me) =>
             /\ me.current_status = CLOSED => door_states[me.door_id] = CLOSED
             /\ me.current_status = OPEN => door_states[me.door_id] = OPEN]_vars

\* C12. Same-door triggers are serialized: at most one trigger_door call for a
\* door is between its relay-activate write and its relay-idle write.
C12_SameDoorSerialized ==
    \A d \in Doors :
        \A r \in InPulse(d) : InPulse(d) = {r} /\ CopiesIn(r, calls) = 1

\* Call me takes a step of trigger_door.
StepOfCall(me) ==
    /\ BagIn(me, calls)
    /\ CopiesIn(me, calls') = CopiesIn(me, calls) - 1

\* The next step of call me, whichever it is.
NextStepOfCall(me) ==
    \/ TriggerSet(me)
    \/ TriggerEmit(me)
    \/ TriggerActivate(me)
    \/ TriggerDeactivate(me)
    \/ TriggerSchedule(me)
    \/ CallerRaised(me)

\* C13. Triggers on different doors are independent: the relay pins of the two
\* doors are distinct, a trigger_door call is never blocked (its next step can
\* always be taken, whatever other calls are doing), and a step of a call for
\* door 1 changes no pin but 9, a step of a call for door 2 no pin but 12.
C13_DifferentDoorsIndependent ==
    /\ [](DOOR1_RELAY # DOOR2_RELAY)
    /\ [](\A me \in BagToSet(calls) : ENABLED NextStepOfCall(me))
    /\ [][\A me \in BagToSet(calls) :
             StepOfCall(me) =>
                \A p \in Pins :
                   gpio'[p] # gpio[p] =>
                      p = IF me.door_id = 1 THEN DOOR1_RELAY ELSE DOOR2_RELAY]_vars

\* C13 witness: calls for door 1 and for door 2 are in their pulse hold at the
\* same time, both relays active.
C13_Witness ==
    /\ InPulse(1) # {} /\ InPulse(2) # {}
    /\ gpio[DOOR1_RELAY] = LOW /\ gpio[DOOR2_RELAY] = LOW

\* The poller thread is running _monitor_doors.
PollerRunning == poller.pc \in UpdatePcs \cup {"loop"}

\* A timer thread takes a step.
StepOfTimer(t) ==
    /\ BagIn(t, timers)
    /\ CopiesIn(t, timers') = CopiesIn(t, timers) - 1

C20_PollerSurvivesReadFailure ==
    ~ (poller.pc = "dead" /\ poller.exc = "IOError")

\* cleanup() executes lines 194-199 and returns.
ReleaseStep == main.pc = "release" /\ main'.pc # "release"

\* C16. Shutdown is safe for an in-flight pulse: when cleanup() releases the
\* pins, no relay pin is at its active level.
C16_NoRelayActiveAtRelease ==
    [][ReleaseStep => \A p \in RelayPins : gpio[p] = HIGH]_vars

\* C17. Shutdown is idempotent: once a cleanup() has returned, every step of a
\* later cleanup() is a step of cleanup that raises nothing and changes neither
\* the monitoring flag, the pins held (none, and none is released again), the
\* pin levels, the statuses, the observers nor any other thread.
C17_CleanupIdempotent ==
    [][(cleanups >= 1 /\ main' # main) =>
          /\ main'.pc \in {"join", "release", "cleaned"}
          /\ main'.exc = None
          /\ monitoring = FALSE /\ claimed = {}
          /\ UNCHANGED <<monitoring, claimed, gpio, door_states, status_callbacks,
                         poller, timers, calls>>]_vars

\* C17 witness: a second cleanup() has returned.
C17_Witness == cleanups = 2 /\ main.pc = "cleaned"

\* The constructor is inside _setup_gpio's first update of door d, before its
\* store, or has not come to it yet.
BeforeFirstPoll(d) ==
    \/ main.pc \in ClaimPcs
    \/ main.pc \in {"read", "cmp", "write"} /\ main.door = d
    \/ main.pc \in UpdatePcs /\ main.door < d

\* The constructor has completed _setup_gpio's update of door d.
AfterFirstPoll(d) ==
    \/ main.pc \in UpdatePcs /\ main.door > d
    \/ main.pc \notin UpdatePcs \cup ClaimPcs \cup {"failed"}

\* C18. A door's status is UNKNOWN exactly until its first sensor poll: it is
\* UNKNOWN before the first update's store, OPEN or CLOSED when that update has
\* completed (so both doors are resolved when the constructor returns), and no
\* step of an update, a trigger or cleanup sets a status back to UNKNOWN.
C18_UnknownUntilFirstPoll ==
    /\ [](\A d \in Doors :
             /\ BeforeFirstPoll(d) => door_states[d] = UNKNOWN
             /\ AfterFirstPoll(d) => door_states[d] # UNKNOWN
             /\ (main.pc \in UpdatePcs /\ main.door > d) => door_states[d] \in {OPEN, CLOSED})
    /\ [][\A d \in Doors :
             door_states'[d] = UNKNOWN => door_states[d] = UNKNOWN]_vars

\* C18 witness: after a trigger on door 1 and a cleanup, no door is UNKNOWN.
C18_Witness ==
    /\ cleanups >= 1
    /\ door_states[1] = CLOSING /\ door_states[2] = CLOSED

\* C19. Last registration wins: the observer stored for each door is the
\* callback of the last register_status_callback call for that door (so a
\* registration for one door leaves the other door's observer alone), and every
\* notification for door d invokes that observer, with door id d.
C19_LastRegistrationWins ==
    /\ [](status_callbacks = registered)
    /\ [][emitted' # NoEvent =>
             /\ emitted'.door_id \in Doors
             /\ emitted'.callback # None
             /\ emitted'.callback = registered[emitted'.door_id]]_vars

\* C19 witness: door 1's observer was replaced by another one, door 2 keeps
\* main.py's, and a notification for door 1 has invoked the new observer.
C19_Witness ==
    /\ registered[1] = "other_observer" /\ registered[2] = "door_status_changed"
    /\ emitted.callback = "other_observer" /\ emitted.door_id = 1

\* The request being served carries credentials that name a user: a session
\* cookie or Bearer token that is a JWT signed with SECRET_KEY, not expired,
\* of a stored active user; the API key as Bearer token; or the name and
\* password of a stored active user as Basic credentials.
ValidJwt(token) ==
    /\ token.kind = "jwt" /\ token.key = SECRET_KEY /\ ~ token.expired
    /\ token.user_id \in DOMAIN users
    /\ users[token.user_id].is_active

Authenticates ==
    \/ ValidJwt(request.cookie)
    \/ /\ request.authorization.scheme = "Bearer"
       /\ \/ request.authorization.value = Text(API_KEY)
          \/ ValidJwt(request.authorization.value)
    \/ /\ request.authorization.scheme = "Basic"
       /\ request.authorization.value.kind = "credentials"
       /\ \E id \in DOMAIN users :
             /\ users[id].is_active
             /\ users[id].username = request.authorization.value.username
             /\ users[id].password_hash
                    = get_password_hash(request.authorization.value.password)

\* The step serves a request to route.
Serves(route) ==
    /\ request # Absent
    /\ request.route = route
    /\ request' = Absent

\* C21. Auth gate on POST /api/trigger/{door_id}: with ENABLE_AUTH true, the
\* endpoint calls trigger_door(door_id) exactly when the request authenticates
\* (session cookie JWT or Bearer JWT of an existing active user, the API key
\* as Bearer token, or valid Basic credentials); every other request is
\* answered 401 and changes no status, writes no relay and notifies nobody.
C21_TriggerAuthGate ==
    [][(enable_auth /\ Serves("/api/trigger/{door_id}")) =>
          IF Authenticates
          THEN /\ calls' # calls
               /\ \E me \in BagToSet(calls') : me.door_id = request.door_id
               /\ response'.status # 401
          ELSE /\ response'.status = 401
               /\ UNCHANGED <<door_states, gpio, calls, timers, emitted,
                              status_callbacks>>]_vars

\* C21 witness: with authentication enabled, a trigger request has been
\* answered 401 and no call of trigger_door exists.
C21_Witness ==
    /\ enable_auth
    /\ request = Absent
    /\ response.status = 401
    /\ calls = EmptyBag

\* C22. get_all_doors_status never partial: at any time, before the first
\* poll, during a pulse and after shutdown included, it returns a mapping
\* with exactly the keys 1 and 2, each value one of the five status values.
C22_AllDoorsNeverPartial ==
    /\ DOMAIN get_all_doors_status = {1, 2}
    /\ \A d \in {1, 2} :
          get_all_doors_status[d] \in {"open", "closed", "opening", "closing", "unknown"}

\* C22 witness: after a cleanup, during the pulse of a trigger on door 1,
\* the mapping holds a transitional status for door 1.
C22_Witness ==
    /\ cleanups >= 1
    /\ InPulse(1) # {}
    /\ get_all_doors_status[1] \in {OPENING, CLOSING}
    /\ get_all_doors_status[2] \in {OPEN, CLOSED}

\* C23. Start-up pin failure is fatal: when opening the chip, claiming a pin
\* or the first read of a sensor fails during construction, the constructor
\* raises, the poller thread is never started and get_garage_controller
\* leaves the module-level instance unset; a controller that exists (a poller
\* started, an instance stored) holds every pin.
C23_StartupFailureFatal ==
    /\ main.pc = "failed" =>
          /\ main.exc # None
          /\ poller.pc = "unstarted"
          /\ ~ monitoring
          /\ garage_controller = None
    /\ (poller.pc # "unstarted" \/ garage_controller # None) =>
          /\ claimed = Pins
          /\ main.pc \in {"register", "serving"}

\* C23 witness: the claim of the second relay pin failed after the first
\* succeeded; the constructor has raised.
C23_Witness ==
    /\ main.pc = "failed" /\ main.exc = "IOError"
    /\ claimed = {DOOR1_RELAY}

\* a relay write of line 159 or 161 raising in call me
WriteRaisesStep(me) ==
    /\ BagIn(me, calls) /\ me.pc \in {"activate", "hold"}
    /\ calls' = Replace(calls, me, CallRaised(me, "IOError"))

\* C24. A trigger aborted by a pin write failure leaves no optimistic status:
\* when a relay write raises inside trigger_door(d), the error reaches the
\* caller, d's stored status is the value it had before the trigger or
\* UNKNOWN, and no deferred re-poll is scheduled for that trigger.
C24_AbortedTriggerLeavesStatus ==
    [][\A me \in BagToSet(calls) :
          WriteRaisesStep(me) =>
             /\ door_states'[me.door_id] \in {me.current_status, UNKNOWN}
             /\ timers' = timers]_vars

\* where a call that goes on stands after each of its steps
PcAfter(pc) ==
    CASE pc = "set" -> "emit"
      [] pc = "emit" -> "activate"
      [] pc = "activate" -> "hold"
      [] pc = "hold" -> "schedule"
      [] OTHER -> "returned"

\* C25. Order of steps inside one trigger: a trigger_door(d) call that returns
\* normally writes the transitional status, notifies, drives the relay active,
\* drives it idle and schedules exactly one re-poll, in that order; the relay
\* pin stays active between the call's two writes, the re-poll is never
\* scheduled while the relay is active, and no step of a call cancels a
\* re-poll scheduled earlier.
C25_TriggerStepOrder ==
    /\ [](\A me \in BagToSet(calls) :
             me.pc = "hold" => gpio[_get_relay_pin(me.door_id)] = LOW)
    /\ [][\A me \in BagToSet(calls) :
             /\ (StepOfCall(me) /\ me.pc \notin {"schedule", "raised"}) =>
                   \E r \in BagToSet(calls') :
                      /\ r.door_id = me.door_id
                      /\ r.pc \in {PcAfter(me.pc), "raised"}
             /\ StepOfCall(me) => \A t \in BagToSet(timers) : BagIn(t, timers')
             /\ ScheduleStep(me) =>
                   /\ gpio[_get_relay_pin(me.door_id)] = HIGH
                   /\ BagCardinality(timers') = BagCardinality(timers) + 1
                   /\ \E t \in BagToSet(timers') :
                         /\ t.door = me.door_id /\ t.pc = "pending"
                         /\ CopiesIn(t, timers') = CopiesIn(t, timers) + 1]_vars

\* The poller reads a sensor (line 126 inside _monitor_doors).
PollerReadStep == poller.pc = "read" /\ poller' # poller

\* C26. Shutdown ordering: cleanup clears the monitoring flag, waits for the
\* poller and only then releases the pins; once the flag is cleared the poller
\* ends at its next loop test, and the poller reads no sensor after the pins
\* have been released.
C26_ShutdownOrdering ==
    /\ [][ReleaseStep => ~ monitoring]_vars
    /\ [][(poller.pc = "loop" /\ ~ monitoring /\ poller' # poller) =>
             poller'.pc = "exited"]_vars
    /\ [][PollerReadStep => _get_sensor_pin(poller.door) \in claimed]_vars

\* line 129 by thread u
CmpStep(u) ==
    \/ UpdateStep(u, "cmp", [u EXCEPT !.pc = "write"])
    \/ UpdateStep(u, "cmp", Local("done", u.door))

\* C27. A status-changing update emits exactly the new status: an execution
\* of _update_door_status(d) that finds the stored status different from the
\* one it computed stores the computed status and then calls d's observer
\* once, with d and the status it stored; without an observer the status is
\* stored all the same and no error occurs. Nothing else of an update calls
\* an observer.
C27_UpdateEmitsStoredStatus ==
    [][/\ \A u \in UpdateThreads :
             /\ (CmpStep(u) /\ door_states[u.door] # u.new_status) =>
                   UpdateStep(u, "cmp", [u EXCEPT !.pc = "write"])
             /\ WriteStep(u) => door_states'[u.door] = u.new_status
             /\ (NotifyStep(u) /\ status_callbacks[u.door] # None) =>
                   emitted' = [callback |-> status_callbacks[u.door],
                               door_id |-> u.door, status |-> u.new_status]
             /\ (NotifyStep(u) /\ status_callbacks[u.door] = None) =>
                   /\ emitted' = NoEvent
                   /\ UpdateStep(u, "notify", Local("done", u.door))
       /\ emitted' # NoEvent =>
             \/ \E u \in UpdateThreads : NotifyStep(u)
             \/ \E me \in BagToSet(calls) : EmitStep(me)]_vars

\* C27 witness: an update has stored a status for door 1 and its observer has
\* been called with it.
C27_Witness ==
    /\ emitted.callback = "door_status_changed"
    /\ emitted.door_id = 1
    /\ emitted.status \in {OPEN, CLOSED}
    /\ door_states[1] = emitted.status

\* C28. Status endpoints require authentication: with ENABLE_AUTH true, a
\* request to GET /api/status or GET /api/status/{door_id} that does not
\* authenticate is answered 401.
C28_StatusRequiresAuth ==
    [][(/\ enable_auth
        /\ Serves("/api/status") \/ Serves("/api/status/{door_id}")
        /\ ~ Authenticates) =>
          response'.status = 401]_vars

\* the websockets of a list
Members(connections) == {connections[i] : i \in 1 .. Len(connections)}

\* C29. Broadcast reaches all live subscribers and removes all failing ones:
\* one broadcast sends the message to every connection whose send succeeds
\* and removes from the list every connection whose send raises, wherever the
\* failing connections stand in the list.
C29_BroadcastReachesAll ==
    [][active_connections' # active_connections \/ delivered' # delivered =>
          /\ delivered' = Members(active_connections) \ failing
          /\ Members(active_connections') = Members(active_connections) \ failing]_vars

\* C30. Mock backend reports closed doors: on the mock GPIO backend, with no
\* pin written by a test, the sensor reading of each door is that of a closed
\* door, and both doors are reported CLOSED after start-up.
C30_MockReportsClosed ==
    main.pc \in {"start", "register"} =>
        \A d \in Doors : ~ _read_sensor(d) /\ door_states[d] = CLOSED

\* C31. Backends have identical read/write semantics: on the mock backend a
\* read of any pin returns the level most recently written to that pin, or
\* the initial level given at its setup.
C31_MockReadsLastWrite ==
    \A pin \in DOMAIN _pin_states : mock_input(_pin_states, pin) = _pin_states[pin]

\* the status strings C32 is about: those of the API, another value, none
CheckedStatuses == DoorStatus \cup {"stopped", Missing}

\* C32. HomeKit status mapping: on a 200 response update_status sets
\* CurrentDoorState to 0 for open, 1 for closed, 2 for opening, 3 for closing
\* and 4 for unknown or any other value; it sets TargetDoorState to 0 / 1 only
\* for open / closed and leaves it unchanged otherwise; on a non-200 response
\* or an exception both characteristics are unchanged.
C32_HomeKitStatusMapping ==
    [][(bridge_call'.op = "update_status"
        /\ bridge_call'.answer.status \in CheckedStatuses) =>
          LET d == bridge_call'.door_id
              answer == bridge_call'.answer
              status == answer.status
          IN  IF ~ answer.raised /\ answer.code = 200
              THEN /\ status = "open" =>
                         current_door_state'[d] = 0 /\ target_door_state'[d] = 0
                   /\ status = "closed" =>
                         current_door_state'[d] = 1 /\ target_door_state'[d] = 1
                   /\ status = "opening" => current_door_state'[d] = 2
                   /\ status = "closing" => current_door_state'[d] = 3
                   /\ status \notin {"open", "closed", "opening", "closing"} =>
                         current_door_state'[d] = 4
                   /\ status \notin {"open", "closed"} =>
                         target_door_state'[d] = target_door_state[d]
              ELSE /\ current_door_state' = current_door_state
                   /\ target_door_state' = target_door_state]_vars

\* C32 witness: door 1's accessory, whose target was Open, has got the
\* status opening, and door 2's an unknown status.
C32_Witness ==
    /\ bridge_call.op = "update_status"
    /\ bridge_call.answer = Answer(FALSE, 200, "opening")
    /\ bridge_call.door_id = 1
    /\ current_door_state[1] = 2 /\ target_door_state[1] = 0
    /\ current_door_state[2] = 4

\* C33. HomeKit trigger outcome: set_target_door_state(value) posts one
\* trigger request; on HTTP 200 it moves CurrentDoorState from 1 to 2 or from
\* 0 to 3 and leaves it unchanged otherwise; on a non-200 response or an
\* exception it leaves CurrentDoorState unchanged and sets TargetDoorState to
\* the opposite of the requested value.
C33_HomeKitTriggerOutcome ==
    [][bridge_call'.op = "set_target_door_state" =>
          LET d == bridge_call'.door_id
              answer == bridge_call'.answer
          IN  /\ posts' = posts + 1
              /\ IF ~ answer.raised /\ answer.code = 200
                 THEN /\ current_door_state[d] = 1 => current_door_state'[d] = 2
                      /\ current_door_state[d] = 0 => current_door_state'[d] = 3
                      /\ current_door_state[d] \notin {0, 1} =>
                            current_door_state'[d] = current_door_state[d]
                 ELSE /\ current_door_state' = current_door_state
                      /\ target_door_state'[d] = 1 - bridge_call'.value]_vars

\* C33 witness: a request to open door 1 (value 0) was answered 500: the
\* target is back at Closed, the current state unchanged.
C33_Witness ==
    /\ bridge_call = BridgeCall("set_target_door_state", 1, 0, Answer(FALSE, 500, Missing))
    /\ target_door_state[1] = 1
    /\ current_door_state[1] = 1

\* the users a token was issued to at login and that were deleted or
\* deactivated since
Revoked ==
    {u \in DOMAIN StoredUsers :
        /\ StoredUsers[u].is_active
        /\ u \notin DOMAIN users \/ ~ users[u].is_active}

\* a token issued to a revoked user: signed with the key, not expired
RevokedToken(token) ==
    token.kind = "jwt" /\ token.key = SECRET_KEY /\ ~ token.expired
    /\ token.user_id \in Revoked

\* the credentials of the request are tokens of revoked users and nothing else
PresentsRevoked(req) ==
    /\ req.cookie = Absent \/ RevokedToken(req.cookie)
    /\ \/ req.authorization = Header("", Absent)
       \/ req.authorization.scheme = "Bearer" /\ RevokedToken(req.authorization.value)
    /\ req.cookie # Absent \/ req.authorization # Header("", Absent)

\* C34. Revocation takes effect immediately: once a user is deleted or no
\* longer active in the store, a trigger request presenting a session cookie
\* or bearer JWT issued to that user is unauthenticated: with ENABLE_AUTH it
\* is answered 401 and triggers no door.
C34_RevocationImmediate ==
    [][(/\ request # Absent /\ request' = Absent
        /\ request.route = "/api/trigger/{door_id}"
        /\ enable_auth
        /\ PresentsRevoked(request)) =>
          /\ ~ get_current_web_user(request).authenticated
          /\ response'.status = 401
          /\ calls' = calls /\ gpio' = gpio /\ door_states' = door_states]_vars

\* C34 witness: the admin was deleted, and the request for door 1 carries the
\* session cookie and the bearer token issued to them.
C34_Witness ==
    /\ 1 \notin DOMAIN users
    /\ enable_auth
    /\ request # Absent
    /\ request.route = "/api/trigger/{door_id}" /\ request.door_id = 1
    /\ request.cookie = Jwt(SECRET_KEY, FALSE, 1)
    /\ request.authorization = Header("Bearer", Jwt(SECRET_KEY, FALSE, 1))

\* C35. The relay is active only during a pulse: whenever the relay pin of a
\* door is at its active level (LOW), some trigger_door call for that door is
\* between its activate write and its idle write; the relay is idle after
\* start-up and whenever no trigger for the door is in flight.
C35_RelayActiveOnlyInPulse ==
    \A d \in Doors : gpio[_get_relay_pin(d)] = LOW => InPulse(d) # {}

\* no _update_door_status(d) and no trigger_door(d) is in progress
DoorAtRest(d) ==
    /\ \A u \in UpdateThreads : ~ (u.pc \in UpdatePcs /\ u.door = d)
    /\ \A r \in BagToSet(calls) : r.door_id # d

\* C36. The observer's view matches the status at rest: for a door whose
\* observer has been notified at least once, whenever no _update_door_status
\* and no trigger_door of that door is in progress, the status of the most
\* recent notification equals door_states of the door.
C36_ObserverViewAtRest ==
    \A d \in Doors :
        (notified[d] # None /\ DoorAtRest(d)) => notified[d] = door_states[d]

\* the status the level of door d's sensor pin stands for
SensorStatus(d) == IF gpio[_get_sensor_pin(d)] = LOW THEN OPEN ELSE CLOSED

\* trigger_door(d) is entered
EntryStep(d) ==
    /\ BagCardinality(calls') > BagCardinality(calls)
    /\ \E r \in BagToSet(calls') :
          r.door_id = d /\ CopiesIn(r, calls') > CopiesIn(r, calls)

\* C37. The status converges to the sensor: if from some point on the sensor
\* input of door d stays constant and trigger_door(d) is not called, and no
\* observer or pin read failure ends the constructor or the poller, then
\* under fair scheduling the status of d eventually equals the sensor-derived
\* status (OPEN for LOW, CLOSED for HIGH) and stays equal to it forever.
C37_ConvergesToSensor ==
    \A d \in Doors :
        (/\ [](poller.pc # "dead" /\ main.pc # "failed")
         /\ <>[][/\ gpio'[_get_sensor_pin(d)] = gpio[_get_sensor_pin(d)]
                 /\ ~ EntryStep(d)]_vars)
        => <>[](door_states[d] = SensorStatus(d))

\* C37 witness: a deferred re-poll has stored a reading of door 2 that is
\* older than the sensor's level, while the poller runs.
C37_Witness ==
    \E t \in BagToSet(timers) :
        /\ t.pc = "notify" /\ t.door = 2
        /\ door_states[2] = t.new_status
        /\ door_states[2] # SensorStatus(2)
        /\ PollerRunning

\* The poller takes its step at pc.
PollerStepAt(pc) == poller.pc = pc /\ poller' # poller

\* C38. The poller ends a transitional state: an execution of
\* _update_door_status(d) by the poller that finds d OPENING or CLOSING goes
\* on to store the status derived from the sensor level it read, OPEN or
\* CLOSED, and to call the observer with it; this can happen while the relay
\* pulse of the trigger is still held.
C38_PollerEndsTransitional ==
    [][/\ (PollerStepAt("cmp") /\ door_states[poller.door] \in Transitional) =>
             /\ poller'.pc = "write" /\ poller'.door = poller.door
             /\ poller'.new_status = poller.new_status
       /\ PollerStepAt("write") =>
             /\ poller.new_status = (IF poller.sensor_value THEN CLOSED ELSE OPEN)
             /\ door_states'[poller.door] = poller.new_status
             /\ poller'.pc = "notify" /\ poller'.door = poller.door
             /\ poller'.new_status = poller.new_status
       /\ (PollerStepAt("notify") /\ status_callbacks[poller.door] # None) =>
             emitted' = [callback |-> status_callbacks[poller.door],
                         door_id |-> poller.door, status |-> poller.new_status]]_vars

\* C38 witness: while a trigger that made door 1 OPENING holds the relay
\* pulse, the poller has stored CLOSED for door 1 and is about to notify.
C38_Witness ==
    /\ \E me \in InPulse(1) : me.current_status = CLOSED
    /\ gpio[DOOR1_RELAY] = LOW
    /\ poller.pc = "notify" /\ poller.door = 1
    /\ poller.new_status = CLOSED /\ door_states[1] = CLOSED

\* A thread reads or writes a pin: the poller or a timer thread executes line
\* 126 (a pending timer fires into it), or a call executes line 159 or 161.
PinAccessStep ==
    \/ PollerReadStep
    \/ \E t \in BagToSet(timers) : StepOfTimer(t) /\ t.pc \in {"pending", "read"}
    \/ \E me \in BagToSet(calls) : StepOfCall(me) /\ me.pc \in {"activate", "hold"}

\* C39. No pin access after shutdown: once cleanup() has released the pins, no
\* thread reads or writes a pin: no pending deferred re-poll fires an update,
\* no trigger in flight performs its idle write, the poller reads nothing.
C39_NoPinAccessAfterShutdown ==
    [][(cleanups >= 1 /\ claimed = {}) => ~ PinAccessStep]_vars

\* C40. Trigger from a non-terminal status: a trigger_door(d) call entered
\* while the status of d is UNKNOWN, OPENING or CLOSING leaves the status as
\* it is, calls d's observer with that unchanged status, pulses the relay and
\* schedules the deferred re-poll with the short delay (2 s).
C40_TriggerFromNonTerminal ==
    [][\A me \in BagToSet(calls) :
          me.current_status \in {UNKNOWN, OPENING, CLOSING} =>
             /\ SetStep(me) => door_states' = door_states
             /\ (EmitStep(me) /\ status_callbacks[me.door_id] # None) =>
                   emitted' = [callback |-> status_callbacks[me.door_id],
                               door_id |-> me.door_id,
                               status |-> me.current_status]
             /\ (StepOfCall(me) /\ me.pc = "activate"
                     /\ ~ WriteRaisesStep(me)) =>
                   gpio'[_get_relay_pin(me.door_id)] = LOW
             /\ (StepOfCall(me) /\ me.pc = "hold"
                     /\ ~ WriteRaisesStep(me)) =>
                   gpio'[_get_relay_pin(me.door_id)] = HIGH
             /\ ScheduleStep(me) =>
                   timers' = timers (+) SetToBag({Timer(me.door_id, 2)})]_vars

====
